---- MODULE Spec2Model ----
(***************************************************************************)
(* Model of import_wiktextract.py: the importer that reads Wiktextract     *)
(* JSONL, resolves (word, language) pairs to ids through a cache backed by *)
(* the MySQL table `words`, batches DE->EN and EN->FA pairs into the table *)
(* `translations`, and finally derives DE->FA links through English.       *)
(*                                                                         *)
(* A run of the script is a process p.  Spec is one run against the store; *)
(* SpecConc is two runs of the same script sharing the store, each on its  *)
(* own connection (autocommit off), interleaved at statement granularity;  *)
(* SpecDryLive is a dry run and a live run of the same input file.         *)
(*                                                                         *)
(* Text is a sequence of characters, so that lower() and strip() are       *)
(* computed and not assumed.  Column comparison in the store is exact.     *)
(***************************************************************************)
EXTENDS Naturals, Sequences, FiniteSets, Bags, TLC

VARIABLES
    env,                \* what the runs find: error summary file writable, store
                        \* reachable, input file present
    dry_run,            \* args.dry_run of each run
    word_cache,         \* word_cache of each run: (text, lang) -> id
    translation_batch,  \* translation_batch of each run: list of (source_id, target_id)
    stats,              \* stats counters of each run
    pc,                 \* position of each run in main / get_word_id
    lines_left,         \* lines of the input file not yet read
    tape,               \* the lines read so far by the run that records its input
    en_id,              \* en_id of the record being processed
    todo,               \* translation words of the record still to resolve
    call,               \* arguments of the get_word_id call in progress
    words,              \* table words, committed rows [id, word_text, lang_code]
    pend,               \* rows of words inserted by each connection, not yet committed
    snap,               \* read view of each connection's transaction
    next_id,            \* AUTO_INCREMENT counter of words
    translations,       \* table translations, committed rows (a bag of pairs)
    isolation,          \* transaction isolation level of the server
    other_left,         \* rows another process may still insert into words
    resolved,           \* history: (word, lang, id) returned by get_word_id in each run
    last,               \* history: result, store statements and earlier results of the last get_word_id call
    assigned,           \* history: (text, lang, id) of every row ever inserted into words
    flushed,            \* history: outcome of the last process_batch of each run
    links,              \* history: create_direct_links calls of each run and last outcome
    faulted             \* history: whether a store statement of each run has failed

vars == <<env, dry_run, word_cache, translation_batch, stats, pc, lines_left, tape, en_id,
          todo, call, words, pend, snap, next_id, translations, isolation,
          other_left, resolved, last, assigned, flushed, links, faulted>>

----------------------------------------------------------------------------
(* Bounds *)

MaxLines == 2        \* lines in the input file of a run of Spec
MaxLinesConc == 1    \* lines in the input file of each run of SpecConc
MaxTrans == 2        \* translation references carried by one record
MaxOther == 1        \* rows inserted into words by another process during a run of Spec
MaxLinesDry == 2     \* lines in the input file of SpecDryLive

(* TRANSLATION_BATCH_SIZE of the script, scaled down *)
TRANSLATION_BATCH_SIZE == 2

Procs == {1, 2}
None == 0            \* Python None as a word id; real ids start at 1
NoSnap == {[id |-> 0, word_text |-> <<>>, lang_code |-> "-"]}

----------------------------------------------------------------------------
(* Text *)

IsSpace(c) == c = " "

LowerChar(c) == IF c = "A" THEN "a" ELSE c

(* str.lower() *)
Lower(w) == [i \in 1..Len(w) |-> LowerChar(w[i])]

RECURSIVE LStrip(_)
LStrip(w) == IF w # <<>> /\ IsSpace(Head(w)) THEN LStrip(Tail(w)) ELSE w

RECURSIVE RStrip(_)
RStrip(w) ==
    IF w # <<>> /\ IsSpace(w[Len(w)]) THEN RStrip(SubSeq(w, 1, Len(w) - 1)) ELSE w

(* str.strip() *)
Strip(w) == RStrip(LStrip(w))

(* A list item that is not a string *)
NonStr == <<"#">>

(* Headwords as written in the file *)
RawHeadwords == { <<"A">>, <<" ", "a", " ">> }
Blank == <<" ">>

(* The "word" payload of a translation reference: a string, a list, absent, *)
(* or some other JSON value                                                 *)
Payloads ==
    {[t |-> "str", v |-> <<<<" ", "A">>>>],
     [t |-> "list", v |-> <<NonStr, Blank, <<"A", " ">>>>],
     [t |-> "none", v |-> <<>>],
     [t |-> "other", v |-> <<>>]}

TransEntries ==
    [code : {"de", "fa"}, word : Payloads]
    \cup {[code |-> "fr", word |-> [t |-> "str", v |-> <<<<" ", "A">>>>]]}

RECURSIVE SeqsUpTo(_, _)
SeqsUpTo(S, n) ==
    IF n = 0 THEN {<<>>}
    ELSE LET R == SeqsUpTo(S, n - 1)
         IN R \cup {Append(r, s) : r \in {x \in R : Len(x) = n - 1}, s \in S}

(* One line of the JSONL file.  kind is what the line turns out to be:      *)
(*   "undecodable"  bytes that are not UTF-8: the iteration of line 153      *)
(*                  raises UnicodeDecodeError                                *)
(*   "notjson"      json.loads raises JSONDecodeError (line 156)             *)
(*   "notobject"    a JSON value without .get: line 159 raises               *)
(*   "badtrans"     an object whose "translations" is not a list of objects: *)
(*                  line 182 raises, after the headword was resolved         *)
(*   "object"       a JSON object as Wiktextract writes it                   *)
BadLine(kind) ==
    [kind |-> kind, lang_code |-> "-", word |-> <<>>, translations |-> <<>>]

InputLines ==
    {BadLine(k) : k \in {"undecodable", "notjson", "notobject"}}
    \cup [kind : {"badtrans"}, lang_code : {"en"}, word : RawHeadwords,
          translations : {<<>>}]
    \cup [kind : {"object"}, lang_code : {"en", "de"}, word : RawHeadwords \cup {<<>>},
          translations : SeqsUpTo(TransEntries, MaxTrans)]

(* The lines of the input file of SpecDryLive: every kind of line, with     *)
(* string payloads and payloads of an unexpected type                       *)
DryLines ==
    {line \in InputLines :
        /\ line.word # <<" ", "a", " ">>
        /\ line.lang_code # "de"
        /\ \A i \in 1..Len(line.translations) :
               /\ line.translations[i].code # "fr"
               /\ line.translations[i].word.t \in {"str", "other"}
               /\ (line.translations[i].word.t = "other"
                      => line.translations[i].code = "de")}


----------------------------------------------------------------------------
(* Translation Extractor: lines 193-205 (German) and 223-235 (Persian) *)

RECURSIVE StrippedItems(_)
StrippedItems(items) ==
    IF items = <<>> THEN <<>>
    ELSE LET item == Head(items)
             rest == StrippedItems(Tail(items))
         IN IF item # NonStr /\ Strip(item) # <<>>
            THEN <<Strip(item)>> \o rest
            ELSE rest

(* target_words_text_list_processed of one translation reference *)
TargetWords(payload) ==
    IF payload.t \in {"str", "list"} THEN StrippedItems(payload.v) ELSE <<>>

(* The words to resolve for the translations of one language, in order *)
RECURSIVE WordsFor(_, _)
WordsFor(trans, code) ==
    IF trans = <<>> THEN <<>>
    ELSE LET t == Head(trans)
             rest == WordsFor(Tail(trans), code)
         IN IF t.code = code
            THEN [i \in 1..Len(TargetWords(t.word)) |->
                      [word |-> TargetWords(t.word)[i], lang |-> code]] \o rest
            ELSE rest

----------------------------------------------------------------------------
(* The store *)

(* key = (word.lower(), lang) *)
Key(word, lang) == <<Lower(word), lang>>

MatchRows(rows, key) ==
    {r \in rows : r.word_text = key[1] /\ r.lang_code = key[2]}

(* Rows of words a SELECT on connection p reads: its own uncommitted rows   *)
(* and the committed rows, as of its read view under REPEATABLE READ        *)
Rows(p) ==
    (IF isolation = "RR" /\ snap[p] # NoSnap THEN snap[p] ELSE words) \cup pend[p]

(* A consistent read opens the transaction's read view under REPEATABLE READ *)
ReadView(p) ==
    IF isolation = "RR" /\ snap[p] = NoSnap THEN words ELSE snap[p]

(* SELECT id FROM words WHERE word_text = %s AND lang_code = %s; fetchone() *)
SelectId(rows, key) ==
    IF MatchRows(rows, key) = {} THEN None
    ELSE (CHOOSE r \in MatchRows(rows, key) : TRUE).id

(* The unique key of words on (word_text, lang_code): error 1062 *)
Duplicate(p, key) == MatchRows(words \cup pend[p], key) # {}

(* An INSERT waits while another transaction holds an uncommitted row with  *)
(* the same unique key                                                      *)
Locked(p, key) == \E q \in Procs \ {p} : MatchRows(pend[q], key) # {}

(* Mutant of WordIds: the foreign keys are not enforced, every id that was *)
(* ever handed out can be referenced                                       *)
IdsEverAssigned(p) == {r.id : r \in assigned}

(* Ids of the rows of words that connection p can reference *)
WordIds(p) == {r.id : r \in words \cup pend[p]}

(* Mutant of InsertIgnore: a plain INSERT into a table without the unique  *)
(* key stores the pair once more                                           *)
InsertAlways(table, pair, ids) ==
    IF pair[1] \notin ids \/ pair[2] \notin ids THEN table
    ELSE table (+) SetToBag({pair})

(* INSERT IGNORE INTO translations of one pair: a pair already stored, or   *)
(* one that references no row of words, is skipped                          *)
InsertIgnore(table, pair, ids) ==
    IF BagIn(pair, table) \/ pair[1] \notin ids \/ pair[2] \notin ids
    THEN table
    ELSE table (+) SetToBag({pair})

(* cursor.executemany(sql, batch) *)
RECURSIVE ExecuteMany(_, _, _)
ExecuteMany(table, batch, ids) ==
    IF batch = <<>> THEN table
    ELSE ExecuteMany(InsertIgnore(table, Head(batch), ids), Tail(batch), ids)

LangOf(rows, id) == {r.lang_code : r \in {x \in rows : x.id = id}}

(* Mutant of JoinOn: the join compares the wrong column of en_fa *)
JoinOnTarget(de_en, en_fa) == de_en[2] = en_fa[2]

(* JOIN translations en_fa ON de_en.target_id = en_fa.source_id *)
JoinOn(de_en, en_fa) == de_en[2] = en_fa[1]

(* The SELECT of create_direct_links: DE->EN rows joined with EN->FA rows, *)
(* each end joined with its row of words and its lang_code                 *)
DirectLinks(table, rows) ==
    LET T == BagToSet(table)
        joined == {j \in T \X T :
                      /\ JoinOn(j[1], j[2])
                      /\ "de" \in LangOf(rows, j[1][1])
                      /\ "en" \in LangOf(rows, j[1][2])
                      /\ "fa" \in LangOf(rows, j[2][2])}
    IN {<<j[1][1], j[2][2]>> : j \in joined}

(* Mutant of InsertSelect: INSERT ... SELECT without IGNORE and without the *)
(* unique key stores every selected row once more                          *)
RECURSIVE InsertSelectAll(_, _, _)
InsertSelectAll(table, selected, ids) ==
    IF selected = {} THEN table
    ELSE LET pair == CHOOSE x \in selected : TRUE
         IN InsertSelectAll(InsertAlways(table, pair, ids), selected \ {pair}, ids)

(* INSERT IGNORE INTO translations ... SELECT: every selected row is inserted *)
RECURSIVE InsertSelect(_, _, _)
InsertSelect(table, selected, ids) ==
    IF selected = {} THEN table
    ELSE LET pair == CHOOSE x \in selected : TRUE
         IN InsertSelect(InsertIgnore(table, pair, ids), selected \ {pair}, ids)

----------------------------------------------------------------------------
(* Initial states: main() is entered, the arguments are parsed (line 72) *)

NoCall == [word |-> <<>>, lang |-> "-", stage |-> "-"]
NoLast == [id |-> None, queries |-> 0, prev |-> {}]

InitRun ==
    /\ word_cache = [p \in Procs |-> <<>>]
    /\ translation_batch = [p \in Procs |-> <<>>]
    /\ stats = [p \in Procs |-> [processed_lines |-> 0, errors |-> 0,
                                 english_entries |-> 0,
                                 translation_pairs_batched |-> 0]]
    /\ pc = [p \in Procs |-> "start"]
    /\ tape = <<>>
    /\ en_id = [p \in Procs |-> None]
    /\ todo = [p \in Procs |-> <<>>]
    /\ call = [p \in Procs |-> NoCall]
    /\ words = {}
    /\ pend = [p \in Procs |-> {}]
    /\ snap = [p \in Procs |-> NoSnap]
    /\ next_id = 1
    /\ translations = EmptyBag
    /\ faulted = [p \in Procs |-> FALSE]
    /\ resolved = [p \in Procs |-> {}]
    /\ last = [p \in Procs |-> NoLast]
    /\ assigned = {}
    /\ flushed = [p \in Procs |-> "none"]
    /\ links = [p \in Procs |-> [n |-> 0, outcome |-> "none"]]

(* One run, while another process may insert words.  The isolation level  *)
(* is the server's: READ COMMITTED, or REPEATABLE READ (the default)       *)
Init ==
    /\ InitRun
    /\ env \in [log : BOOLEAN, store : BOOLEAN, file : BOOLEAN]
    /\ dry_run \in [Procs -> BOOLEAN]
    /\ dry_run[2] = FALSE
    /\ lines_left \in [Procs -> 0..MaxLines]
    /\ lines_left[2] = 0
    /\ isolation \in {"RC", "RR"}
    \* a dry run opens no connection (line 93): the store plays no part in it
    /\ dry_run[1] => isolation = "RR"
    /\ other_left = IF dry_run[1] THEN 0 ELSE MaxOther

(* Two live runs on one store *)
InitConc ==
    /\ InitRun
    /\ env = [log |-> TRUE, store |-> TRUE, file |-> TRUE]
    /\ dry_run = [p \in Procs |-> FALSE]
    /\ lines_left \in [Procs -> 0..MaxLinesConc]
    /\ isolation \in {"RC", "RR"}
    /\ other_left = 0

(* A dry run and a live run of the same input file, one after the other:   *)
(* run 1 is the dry run and records the lines it reads, run 2 is the live  *)
(* run and reads the recorded lines.  No other process uses the store.     *)
InitDryLive ==
    /\ InitRun
    /\ env = [log |-> TRUE, store |-> TRUE, file |-> TRUE]
    /\ dry_run = [p \in Procs |-> p = 1]
    /\ lines_left \in [Procs -> 0..MaxLinesDry]
    /\ lines_left[2] = lines_left[1]
    /\ isolation \in {"RC", "RR"}
    /\ other_left = 0

----------------------------------------------------------------------------
Bump(st, field, n) == [st EXCEPT ![field] = @ + n]

(* main(): setup, lines 81-149.  sys.exit(1) when the error summary file   *)
(* cannot be opened (line 88) or the connection fails (lines 115, 122); a  *)
(* missing input file raises FileNotFoundError (line 149), which line 285  *)
(* passes over: main() goes through its finally clause and returns.        *)
main_setup(p) ==
    /\ pc[p] = "start"
    /\ IF ~env.log \/ (~dry_run[p] /\ ~env.store)
       THEN /\ pc' = [pc EXCEPT ![p] = "exit1"]
            /\ UNCHANGED stats
       ELSE IF ~env.file
       THEN /\ pc' = [pc EXCEPT ![p] = "nofile"]
            /\ stats' = [stats EXCEPT ![p] = Bump(@, "errors", 1)]
       ELSE /\ pc' = [pc EXCEPT ![p] = "read"]
            /\ UNCHANGED stats
    /\ UNCHANGED <<env, tape, dry_run, word_cache, translation_batch, lines_left, en_id,
                   todo, call, words, pend, snap, next_id, translations, isolation,
                   other_left, resolved, last, assigned, flushed, links, faulted>>

(* The exit status of a run that has ended: sys.exit(1), or main() returned *)
ExitStatus(p) == IF pc[p] = "exit1" THEN 1 ELSE 0

----------------------------------------------------------------------------
(* main(): the processing loop, lines 153-268 *)

(* Mutant of BatchFull: > instead of >= *)
BatchOverfull(batch) == Len(batch) > TRANSLATION_BATCH_SIZE

(* len(translation_batch) >= TRANSLATION_BATCH_SIZE, line 254 *)
BatchFull(batch) == Len(batch) >= TRANSLATION_BATCH_SIZE

(* The pair appended for a resolved translation word: (de_id, en_id) at    *)
(* line 216, (en_id, fa_id) at line 245                                     *)
PairFor(lang, id, en) == IF lang = "de" THEN <<id, en>> ELSE <<en, id>>

(* The loop goes on with the next translation word of the record, or, past *)
(* the last one, reaches the batch-size check of line 254                  *)
Continue(p, rest, batch, en) ==
    IF rest = <<>>
    THEN /\ call' = [call EXCEPT ![p] = NoCall]
         /\ todo' = [todo EXCEPT ![p] = <<>>]
         /\ en_id' = [en_id EXCEPT ![p] = None]
         /\ pc' = [pc EXCEPT ![p] = IF BatchFull(batch) THEN "flush" ELSE "read"]
    ELSE /\ call' = [call EXCEPT ![p] = [word |-> Head(rest).word,
                                         lang |-> Head(rest).lang, stage |-> "tr"]]
         /\ todo' = [todo EXCEPT ![p] = Tail(rest)]
         /\ en_id' = [en_id EXCEPT ![p] = en]
         /\ pc' = [pc EXCEPT ![p] = "gw"]

(* Mutant of Rejected: a line that is not JSON is not rejected *)
RejectedUnlessJson(line) ==
    \/ line.kind = "notobject"
    \/ (line.lang_code = "en" /\ line.word = <<>>)

(* The lines whose processing ends with stats['errors'] += 1 before any    *)
(* word is resolved: JSONDecodeError (lines 259-263), an exception at line *)
(* 159 (lines 264-268), an English entry without "word" (lines 163-167)    *)
Rejected(line) ==
    \/ line.kind \in {"notjson", "notobject"}
    \/ (line.lang_code = "en" /\ line.word = <<>>)

(* for line in f: the next line is `line`, lines 153-169 and 259-268; the  *)
(* translation words of lines 181-246 are extracted here.  A line that     *)
(* cannot be decoded raises at line 153, outside the try of line 155: the  *)
(* loop is left, line 290 counts an error, the finally clause closes the   *)
(* connection (its uncommitted rows are rolled back) and prints the summary *)
ReadLineOf(p, line) ==
    /\ pc[p] = "read"
    /\ lines_left[p] > 0
    /\ IF line.kind = "undecodable"
       THEN /\ stats' = [stats EXCEPT ![p] = Bump(@, "errors", 1)]
            /\ pc' = [pc EXCEPT ![p] = "done"]
            /\ pend' = [pend EXCEPT ![p] = {}]
            /\ snap' = [snap EXCEPT ![p] = NoSnap]
            /\ UNCHANGED <<lines_left, call, todo>>
       ELSE /\ lines_left' = [lines_left EXCEPT ![p] = @ - 1]
            /\ UNCHANGED <<pend, snap>>
            /\ LET st == Bump(stats[p], "processed_lines", 1)
               IN IF Rejected(line)
                  THEN /\ stats' = [stats EXCEPT ![p] = Bump(st, "errors", 1)]
                       /\ UNCHANGED <<pc, call, todo>>
                  ELSE IF line.lang_code # "en"
                  THEN /\ stats' = [stats EXCEPT ![p] = st]
                       /\ UNCHANGED <<pc, call, todo>>
                  ELSE /\ stats' = [stats EXCEPT ![p] = Bump(st, "english_entries", 1)]
                       /\ call' = [call EXCEPT ![p] =
                                      [word |-> line.word, lang |-> "en",
                                       stage |-> IF line.kind = "badtrans"
                                                 THEN "enx" ELSE "en"]]
                       /\ todo' = [todo EXCEPT ![p] =
                                      WordsFor(line.translations, "de")
                                      \o WordsFor(line.translations, "fa")]
                       /\ pc' = [pc EXCEPT ![p] = "gw"]
    /\ UNCHANGED <<env, dry_run, word_cache, translation_batch, en_id, words,
                   next_id, translations, isolation, other_left, resolved, last,
                   assigned, flushed, links, faulted>>

(* A run reads the next line of its input file *)
ReadLine(p) ==
    /\ pc[p] = "read"
    /\ \E line \in InputLines : ReadLineOf(p, line)
    /\ UNCHANGED tape

(* The dry run of SpecDryLive reads the next line of the file and records it *)
ReadLineRecorded(p) ==
    /\ pc[p] = "read"
    /\ \E line \in DryLines :
          /\ ReadLineOf(p, line)
          /\ tape' = Append(tape, line)

(* The live run of SpecDryLive starts when the dry run has ended, and reads *)
(* the lines the dry run has read                                          *)
ReadLineReplayed(p) ==
    /\ pc[p] = "read"
    /\ \A q \in Procs \ {p} : pc[q] = "done"
    /\ stats[p].processed_lines < Len(tape)
    /\ ReadLineOf(p, tape[stats[p].processed_lines + 1])
    /\ UNCHANGED tape

(* Mutant of AfterLoop: the remaining batch is not flushed *)
AfterLoopNoFlush(batch, dry) == IF dry THEN "done" ELSE "links"

(* After the loop: the remaining batch is flushed (lines 271-272), then a  *)
(* live run creates the direct links (lines 275-278)                       *)
AfterLoop(batch, dry) ==
    IF batch # <<>> THEN "final" ELSE IF dry THEN "done" ELSE "links"

(* The input is exhausted *)
EndOfInput(p) ==
    /\ pc[p] = "read"
    /\ lines_left[p] = 0
    /\ pc' = [pc EXCEPT ![p] = AfterLoop(translation_batch[p], dry_run[p])]
    /\ UNCHANGED <<env, tape, dry_run, word_cache, translation_batch, stats, lines_left, en_id,
                   todo, call,
                   words, pend, snap, next_id, translations, isolation, other_left,
                   resolved, last, assigned, flushed, links, faulted>>

----------------------------------------------------------------------------
(* get_word_id, lines 342-410, and what its caller does with the result *)

(* Mutant of Cached: the result is not written to the cache *)
NotCached(cache, key, id) == cache

(* cache[key] = word_id *)
Cached(cache, key, id) == (key :> id) @@ cache

(* Mutant of Appended: the pair is appended whatever get_word_id returned *)
AppendedAlways(batch, pair, id) == Append(batch, pair)

(* if de_id is not None: translation_batch.append(...), lines 215-216 and  *)
(* 244-245                                                                  *)
Appended(batch, pair, id) == IF id # None THEN Append(batch, pair) ELSE batch

(* get_word_id returns id after `queries` store statements; cache is the   *)
(* cache it leaves.  The caller goes on: lines 174-178, 215-216, 244-245;  *)
(* in a record whose translations raise at line 182, lines 264-268.        *)
Returns(p, id, queries, cache) ==
    LET c == call[p]
        batch == IF c.stage = "tr"
                 THEN Appended(translation_batch[p],
                               PairFor(c.lang, id, en_id[p]), id)
                 ELSE translation_batch[p]
    IN /\ word_cache' = [word_cache EXCEPT ![p] = cache]
       /\ last' = [last EXCEPT ![p] =
                      [id |-> id, queries |-> queries,
                       prev |-> {r.id : r \in {x \in resolved[p] :
                                     x.word = c.word /\ x.lang = c.lang}}]]
       /\ resolved' = [resolved EXCEPT ![p] =
                          IF id = None THEN @
                          ELSE @ \cup {[word |-> c.word, lang |-> c.lang, id |-> id]}]
       /\ translation_batch' = [translation_batch EXCEPT ![p] = batch]
       /\ IF c.stage = "enx" \/ (c.stage = "en" /\ id = None)
          THEN /\ stats' = [stats EXCEPT ![p] = Bump(@, "errors", 1)]
               /\ call' = [call EXCEPT ![p] = NoCall]
               /\ todo' = [todo EXCEPT ![p] = <<>>]
               /\ pc' = [pc EXCEPT ![p] = "read"]
               /\ UNCHANGED en_id
          ELSE /\ UNCHANGED stats
               /\ Continue(p, todo[p], batch, IF c.stage = "en" THEN id ELSE en_id[p])

(* key in cache: lines 349-351 *)
get_word_id_cached(p) ==
    /\ pc[p] = "gw"
    /\ Key(call[p].word, call[p].lang) \in DOMAIN word_cache[p]
    /\ Returns(p, word_cache[p][Key(call[p].word, call[p].lang)], 0, word_cache[p])
    /\ UNCHANGED <<env, tape, dry_run, lines_left, words, pend, snap, next_id, translations,
                   isolation, other_left, assigned, flushed, links, faulted>>

(* Mutant of FakeId: the dry run invents no id *)
NoFakeId(cache) == None

(* Mutant of FakeId: the fake id does not depend on the size of the cache *)
FirstFakeId(cache) == 1

(* fake_id = len(cache) + 1 *)
FakeId(cache) == Cardinality(DOMAIN cache) + 1

(* is_dry_run: lines 353-358 *)
get_word_id_dry(p) ==
    /\ pc[p] = "gw"
    /\ Key(call[p].word, call[p].lang) \notin DOMAIN word_cache[p]
    /\ dry_run[p]
    /\ Returns(p, FakeId(word_cache[p]), 0,
               Cached(word_cache[p], Key(call[p].word, call[p].lang),
                      FakeId(word_cache[p])))
    /\ UNCHANGED <<env, tape, dry_run, lines_left, words, pend, snap, next_id, translations,
                   isolation, other_left, assigned, flushed, links, faulted>>

(* The first SELECT: lines 363-370; a store fault ends in line 408-410 *)
get_word_id_select(p) ==
    LET key == Key(call[p].word, call[p].lang)
        id == SelectId(Rows(p), key)
    IN /\ pc[p] = "gw"
       /\ key \notin DOMAIN word_cache[p]
       /\ ~dry_run[p]
       /\ \/ /\ faulted' = [faulted EXCEPT ![p] = TRUE]
             /\ Returns(p, None, 1, word_cache[p])
             /\ UNCHANGED snap
          \/ /\ id # None
             /\ Returns(p, id, 1, Cached(word_cache[p], key, id))
             /\ snap' = [snap EXCEPT ![p] = ReadView(p)]
             /\ UNCHANGED faulted
          \/ /\ id = None
             /\ pc' = [pc EXCEPT ![p] = "gw_insert"]
             /\ snap' = [snap EXCEPT ![p] = ReadView(p)]
             /\ UNCHANGED <<word_cache, translation_batch, stats, en_id, todo, call,
                            resolved, last, faulted>>
       /\ UNCHANGED <<env, tape, dry_run, lines_left, words, pend, next_id, translations,
                      isolation, other_left, assigned, flushed, links>>

(* The INSERT: lines 373-380; IntegrityError 1062 leads to line 385 *)
get_word_id_insert(p) ==
    LET key == Key(call[p].word, call[p].lang)
        row == [id |-> next_id, word_text |-> key[1], lang_code |-> key[2]]
    IN /\ pc[p] = "gw_insert"
       /\ \/ /\ faulted' = [faulted EXCEPT ![p] = TRUE]
             /\ Returns(p, None, 2, word_cache[p])
             /\ UNCHANGED <<pend, next_id, assigned>>
          \/ /\ ~Locked(p, key)
             /\ Duplicate(p, key)
             /\ pc' = [pc EXCEPT ![p] = "gw_reselect"]
             /\ UNCHANGED <<word_cache, translation_batch, stats, en_id, todo, call,
                            resolved, last, pend, next_id, assigned, faulted>>
          \/ /\ ~Locked(p, key)
             /\ ~Duplicate(p, key)
             /\ pend' = [pend EXCEPT ![p] = @ \cup {row}]
             /\ next_id' = next_id + 1
             /\ assigned' = assigned \cup {row}
             /\ Returns(p, row.id, 2, Cached(word_cache[p], key, row.id))
             /\ UNCHANGED faulted
       /\ UNCHANGED <<env, tape, dry_run, lines_left, words, snap, translations, isolation,
                      other_left, flushed, links>>

(* The re-select after error 1062: lines 386-402 *)
get_word_id_reselect(p) ==
    LET key == Key(call[p].word, call[p].lang)
        id == SelectId(Rows(p), key)
    IN /\ pc[p] = "gw_reselect"
       /\ \/ /\ faulted' = [faulted EXCEPT ![p] = TRUE]
             /\ Returns(p, None, 3, word_cache[p])
          \/ /\ id # None
             /\ Returns(p, id, 3, Cached(word_cache[p], key, id))
             /\ UNCHANGED faulted
          \/ /\ id = None
             /\ Returns(p, None, 3, word_cache[p])
             /\ UNCHANGED faulted
       /\ snap' = [snap EXCEPT ![p] = ReadView(p)]
       /\ UNCHANGED <<env, tape, dry_run, lines_left, words, pend, next_id, translations,
                      isolation, other_left, assigned, flushed, links>>

----------------------------------------------------------------------------
(* process_batch, lines 413-443: called at line 255 and at line 272 *)

(* Mutant of BatchCount: the rows the INSERT IGNORE is asked for, each pair *)
(* once                                                                    *)
DistinctCount(batch) == Cardinality({batch[i] : i \in 1..Len(batch)})

(* stats['translation_pairs_batched'] += len(batch), lines 424 and 435 *)
BatchCount(batch) == Len(batch)

(* Mutant of Rollback: what the failed transaction wrote stays *)
NoRollback(committed, written) == written

(* conn.rollback(), lines 440 and 473: the table is as it was committed *)
Rollback(committed, written) == committed

(* Mutant of Cleared: the batch is cleared on success only *)
ClearedOnSuccess(batch, outcome) == IF outcome = "rolledback" THEN batch ELSE <<>>

(* batch.clear() in the finally clause *)
Cleared(batch, outcome) == <<>>

process_batch(p) ==
    /\ pc[p] \in {"flush", "final"}
    /\ translation_batch[p] # <<>>
    /\ \/ /\ dry_run[p]
          /\ stats' = [stats EXCEPT ![p] = Bump(@, "translation_pairs_batched",
                                                BatchCount(translation_batch[p]))]
          /\ flushed' = [flushed EXCEPT ![p] = "dry"]
          /\ UNCHANGED <<words, pend, snap, translations, faulted>>
       \/ /\ ~dry_run[p]
          /\ translations' = ExecuteMany(translations, translation_batch[p], WordIds(p))
          /\ words' = words \cup pend[p]
          /\ pend' = [pend EXCEPT ![p] = {}]
          /\ snap' = [snap EXCEPT ![p] = NoSnap]
          /\ stats' = [stats EXCEPT ![p] = Bump(@, "translation_pairs_batched",
                                                BatchCount(translation_batch[p]))]
          /\ flushed' = [flushed EXCEPT ![p] = "committed"]
          /\ UNCHANGED faulted
       \/ /\ ~dry_run[p]
          /\ faulted' = [faulted EXCEPT ![p] = TRUE]
          /\ pend' = [pend EXCEPT ![p] = {}]
          /\ snap' = [snap EXCEPT ![p] = NoSnap]
          /\ flushed' = [flushed EXCEPT ![p] = "rolledback"]
          /\ \E k \in 0..Len(translation_batch[p]) :
                 translations' =
                     Rollback(translations,
                              ExecuteMany(translations,
                                          SubSeq(translation_batch[p], 1, k),
                                          WordIds(p)))
          /\ UNCHANGED <<words, stats>>
    /\ translation_batch' = [translation_batch EXCEPT ![p] = Cleared(@, flushed'[p])]
    /\ pc' = [pc EXCEPT ![p] = IF pc[p] = "flush" THEN "read"
                               ELSE AfterLoop(<<>>, dry_run[p])]
    /\ UNCHANGED <<env, tape, dry_run, word_cache, lines_left, en_id, todo, call, next_id,
                   isolation, other_left, resolved, last, assigned, links>>

----------------------------------------------------------------------------
(* create_direct_links, lines 446-474: called at line 278 *)

create_direct_links(p) ==
    /\ pc[p] = "links"
    /\ \/ /\ translations' = InsertSelect(translations,
                                          DirectLinks(translations, words \cup pend[p]),
                                          WordIds(p))
          /\ words' = words \cup pend[p]
          /\ links' = [links EXCEPT ![p] = [n |-> @.n + 1, outcome |-> "committed"]]
          /\ UNCHANGED faulted
       \/ /\ faulted' = [faulted EXCEPT ![p] = TRUE]
          /\ links' = [links EXCEPT ![p] = [n |-> @.n + 1, outcome |-> "rolledback"]]
          /\ \E written \in {translations,
                               InsertSelect(translations,
                                            DirectLinks(translations,
                                                        words \cup pend[p]),
                                            WordIds(p))} :
                 translations' = Rollback(translations, written)
          /\ UNCHANGED words
    /\ pend' = [pend EXCEPT ![p] = {}]
    /\ snap' = [snap EXCEPT ![p] = NoSnap]
    /\ pc' = [pc EXCEPT ![p] = "done"]
    /\ UNCHANGED <<env, tape, dry_run, word_cache, translation_batch, stats, lines_left, en_id,
                   todo, call, next_id, isolation, other_left, resolved, last,
                   assigned, flushed>>

----------------------------------------------------------------------------
(* Another process inserts a word and commits: the case the handler of     *)
(* IntegrityError 1062 at lines 382-385 is written for                     *)

StoreKeys ==
    {Key(w, "en") : w \in RawHeadwords} \cup {<<<<"a">>, "de">>, <<<<"a">>, "fa">>}

other_process_insert ==
    /\ other_left > 0
    /\ \E key \in StoreKeys :
        LET row == [id |-> next_id, word_text |-> key[1], lang_code |-> key[2]]
        IN /\ MatchRows(words, key) = {}
           /\ \A q \in Procs : MatchRows(pend[q], key) = {}
           /\ words' = words \cup {row}
           /\ assigned' = assigned \cup {row}
    /\ next_id' = next_id + 1
    /\ other_left' = other_left - 1
    /\ UNCHANGED <<env, tape, dry_run, word_cache, translation_batch, stats, pc, lines_left,
                   en_id, todo, call, pend, snap, translations, isolation, resolved,
                   last, flushed, links, faulted>>

----------------------------------------------------------------------------
(* Specifications *)

Step(p) ==
    \/ main_setup(p)
    \/ ReadLine(p)
    \/ EndOfInput(p)
    \/ get_word_id_cached(p)
    \/ get_word_id_dry(p)
    \/ get_word_id_select(p)
    \/ get_word_id_insert(p)
    \/ get_word_id_reselect(p)
    \/ process_batch(p)
    \/ create_direct_links(p)

Next == Step(1) \/ other_process_insert

Spec == Init /\ [][Next]_vars

StepConc(p) ==
    \/ main_setup(p)
    \/ ReadLine(p)
    \/ EndOfInput(p)
    \/ get_word_id_cached(p)
    \/ get_word_id_select(p)
    \/ get_word_id_insert(p)
    \/ get_word_id_reselect(p)
    \/ process_batch(p)
    \/ create_direct_links(p)

NextConc == \E p \in Procs : StepConc(p)

SpecConc == InitConc /\ [][NextConc]_vars

StepDry(p) ==
    \/ main_setup(p)
    \/ ReadLineRecorded(p)
    \/ EndOfInput(p)
    \/ get_word_id_cached(p)
    \/ get_word_id_dry(p)
    \/ process_batch(p)

(* Alone on the store, the live run never meets error 1062 *)
StepLive(p) ==
    \/ main_setup(p)
    \/ ReadLineReplayed(p)
    \/ EndOfInput(p)
    \/ get_word_id_cached(p)
    \/ get_word_id_select(p)
    \/ get_word_id_insert(p)
    \/ process_batch(p)
    \/ create_direct_links(p)

NextDryLive == StepDry(1) \/ StepLive(2)

SpecDryLive == InitDryLive /\ [][NextDryLive]_vars

----------------------------------------------------------------------------
(* Properties *)

(* C1: when get_word_id is called for a (text, language) pair that an      *)
(* earlier call of the same run resolved, it returns the identity the      *)
(* earlier call returned, and it issues no store statement.                *)
C1_ResolveTwice ==
    \A p \in Procs :
        last[p].prev # {} =>
            /\ last[p].prev = {last[p].id}
            /\ last[p].queries = 0

(* A live run has resolved a pair a second time *)
C1_Witness ==
    /\ ~dry_run[1]
    /\ last[1].prev # {}
    /\ last[1].id # None

(* Trim and case-fold: the normalization C2 speaks of *)
TrimFold(w) == Strip(Lower(w))

(* C2: texts that differ only in case and surrounding whitespace resolve   *)
(* to the same identity in every language (and so to at most one Word).    *)
C2_Normalized ==
    \A p \in Procs : \A r1, r2 \in resolved[p] :
        (r1.lang = r2.lang /\ TrimFold(r1.word) = TrimFold(r2.word))
            => r1.id = r2.id


(* C3: a live call of get_word_id that missed on its SELECT and met error  *)
(* 1062 on its INSERT (another resolution created the pair meanwhile), in  *)
(* a behaviour without any store fault, returns the identity of the one    *)
(* row created for the pair.                                               *)
C3_ConflictRecovery ==
    [][\A p \in Procs :
          (/\ pc[p] = "gw_reselect"
           /\ pc'[p] # "gw_reselect"
           /\ \A q \in Procs : ~faulted'[q])
          => LET key == Key(call[p].word, call[p].lang)
             IN /\ Cardinality(MatchRows(assigned', key)) = 1
                /\ last'[p].id # None
                /\ \E r \in MatchRows(words', key) : r.id = last'[p].id]_vars

(* C4: the store holds at most one Word per (text, language) pair, no pair *)
(* is ever given two identities by the store, and the identity a live run  *)
(* holds for a pair is the identity of the pair's row.                     *)
C4_UniqueIdentity ==
    /\ \A r1, r2 \in words \cup UNION {pend[p] : p \in Procs} :
           (r1.word_text = r2.word_text /\ r1.lang_code = r2.lang_code) => r1 = r2
    /\ \A r1, r2 \in assigned :
           (r1.word_text = r2.word_text /\ r1.lang_code = r2.lang_code)
               => r1.id = r2.id
    /\ \A p \in Procs : \A key \in DOMAIN word_cache[p] :
           \A r \in MatchRows(words \cup UNION {pend[q] : q \in Procs}, key) :
               ~dry_run[p] => word_cache[p][key] = r.id

(* C5: no ordered pair is stored twice in translations, however often it   *)
(* was inserted, in one batch or in several.                               *)
C5_EdgeIdempotent ==
    \A e \in BagToSet(translations) : CopiesIn(e, translations) = 1

(* The same pair was inserted four times, in two committed batches, and is *)
(* stored once                                                             *)
C5_Witness ==
    /\ ~dry_run[1] /\ ~faulted[1]
    /\ links[1].n = 0
    /\ stats[1].translation_pairs_batched = 2 * TRANSLATION_BATCH_SIZE
    /\ BagCardinality(translations) = 1

(* C6: between two records and after the loop the pending batch holds      *)
(* fewer than TRANSLATION_BATCH_SIZE pairs: a batch that reached the       *)
(* capacity is flushed at the end of its record, before anything else is   *)
(* read, and the flush leaves it empty.                                    *)
C6_BatchBoundary ==
    \A p \in Procs :
        /\ pc[p] \in {"read", "final", "links", "done"}
               => Len(translation_batch[p]) < TRANSLATION_BATCH_SIZE
        /\ pc[p] = "flush" => Len(translation_batch[p]) >= TRANSLATION_BATCH_SIZE

(* A full batch has just been flushed at line 255 *)
C6_Witness ==
    /\ pc[1] = "read"
    /\ flushed[1] = "committed"
    /\ translation_batch[1] = <<>>
    /\ stats[1].translation_pairs_batched >= TRANSLATION_BATCH_SIZE

(* C7: every call of process_batch on a non-empty batch leaves the batch   *)
(* empty, whether it committed, rolled back or ran dry.                    *)
C7_ClearedAfterFlush ==
    [][\A p \in Procs :
          (pc[p] \in {"flush", "final"} /\ pc'[p] \notin {"flush", "final"})
              => translation_batch'[p] = <<>>]_vars

(* A flush has failed and the run went on with an empty batch *)
C7_Witness ==
    /\ flushed[1] = "rolledback"
    /\ pc[1] = "read"
    /\ translation_batch[1] = <<>>
    /\ lines_left[1] > 0

(* C8: a live run calls create_direct_links exactly once, with the input   *)
(* exhausted and the pending batch empty, and nothing is added or flushed  *)
(* afterwards.                                                             *)
C8_LinksOnceAtEnd ==
    \A p \in Procs :
        /\ links[p].n <= 1
        /\ (pc[p] = "done" /\ ~dry_run[p]) => links[p].n = 1
        /\ pc[p] = "links" => (translation_batch[p] = <<>> /\ links[p].n = 0)
        /\ links[p].n = 1 => (pc[p] = "done" /\ translation_batch[p] = <<>>)

(* A live run that flushed pairs has finished *)
C8_Witness ==
    /\ pc[1] = "done"
    /\ ~dry_run[1]
    /\ links[1].n = 1
    /\ stats[1].translation_pairs_batched > 0

(* The pairs A->C with A->B and B->C stored, A a German, B an English and  *)
(* C a Persian word                                                        *)
C9_Expected(T, W) ==
    {ac \in {<<a.id, c.id>> : a \in {w \in W : w.lang_code = "de"},
                              c \in {w \in W : w.lang_code = "fa"}} :
        \E b \in {w \in W : w.lang_code = "en"} :
            <<ac[1], b.id>> \in T /\ <<b.id, ac[2]>> \in T}

(* C9: a committed create_direct_links adds exactly the pairs A->C above   *)
(* to the stored pairs.                                                    *)
C9_ClosureCorrect ==
    [][\A p \in Procs :
          (pc[p] = "links" /\ pc'[p] = "done" /\ links'[p].outcome = "committed")
              => BagToSet(translations') =
                     BagToSet(translations)
                     \cup C9_Expected(BagToSet(translations), words)]_vars

(* After a committed closure a derived pair is stored, and so is an EN->FA *)
(* pair whose English word has no German partner                           *)
C9_Witness ==
    /\ pc[1] = "done"
    /\ links[1].outcome = "committed"
    /\ C9_Expected(BagToSet(translations), words) # {}
    /\ \E e \in BagToSet(translations) :
           /\ "en" \in LangOf(words, e[1])
           /\ \A d \in BagToSet(translations) : d[2] # e[1]

(* C10: after a committed closure, the closure statement executed again    *)
(* leaves translations as it is: no row is added, none is duplicated.      *)
C10_ClosureIdempotent ==
    \A p \in Procs :
        (pc[p] = "done" /\ links[p].outcome = "committed")
            => InsertSelect(translations, DirectLinks(translations, words),
                            {r.id : r \in words}) = translations

(* After a committed closure that derived a pair *)
C10_Witness ==
    /\ pc[1] = "done"
    /\ links[1].outcome = "committed"
    /\ DirectLinks(translations, words) # {}
    /\ BagCardinality(translations) >= 3

(* The translation edges an English entry asks for, as pairs of            *)
(* (text, language): S -> E for each German word S, E -> T for each        *)
(* Persian word T                                                          *)
C11_EdgesOf(line) ==
    IF line.kind # "object" \/ line.lang_code # "en" \/ line.word = <<>> THEN {}
    ELSE LET E == <<TrimFold(line.word), "en">>
             refs == {line.translations[i] : i \in 1..Len(line.translations)}
             texts(code) == {TrimFold(t.word.v[1]) :
                                t \in {x \in refs : x.code = code /\ x.word.t = "str"}}
         IN {<<<<S, "de">>, E>> : S \in texts("de")}
            \cup {<<E, <<T, "fa">>>> : T \in texts("fa")}

C11_Stored(edge) ==
    \E r1, r2 \in words :
        /\ <<r1.word_text, r1.lang_code>> = edge[1]
        /\ <<r2.word_text, r2.lang_code>> = edge[2]
        /\ BagIn(<<r1.id, r2.id>>, translations)

(* C11: when a live run without store faults has ended, the store holds    *)
(* the edge S -> E for every German and the edge E -> T for every Persian  *)
(* translation word of every English entry of the input.                   *)
C11_EdgesStored ==
    (pc[2] = "done" /\ ~faulted[2])
        => \A i \in 1..Len(tape) : \A edge \in C11_EdgesOf(tape[i]) : C11_Stored(edge)

(* Run p reads a line in this step, and the line is not valid JSON *)
C12_ReadsBadJson(p) ==
    /\ stats'[p].processed_lines = stats[p].processed_lines + 1
    /\ stats'[p].processed_lines <= Len(tape')
    /\ tape'[stats'[p].processed_lines].kind = "notjson"

(* C12: reading a line that is not valid JSON adds exactly 1 to the error  *)
(* counter, writes nothing to words or translations, leaves the cache and  *)
(* the batch as they are, and the run is at the next line.                 *)
C12_BadJsonSkipped ==
    [][\A p \in Procs :
          C12_ReadsBadJson(p)
              => /\ stats'[p] = [stats[p] EXCEPT !.processed_lines = @ + 1,
                                                 !.errors = @ + 1]
                 /\ words' = words /\ pend' = pend /\ next_id' = next_id
                 /\ translations' = translations
                 /\ word_cache' = word_cache
                 /\ translation_batch' = translation_batch
                 /\ pc'[p] = "read"
                 /\ lines_left'[p] = lines_left[p] - 1]_vars

(* A live run has counted the bad line and processed the entry after it *)
C12_Witness ==
    /\ Len(tape) = 2
    /\ tape[1].kind = "notjson"
    /\ tape[2].kind = "object"
    /\ pc[2] = "done"
    /\ lines_left[2] = 0
    /\ stats[2].errors = 1
    /\ stats[2].english_entries = 1

(* C13: the dry run (run 1) and the live run (run 2) of the same file, the *)
(* live run without store fault, end with the same english_entries and the *)
(* same translation_pairs_batched; the dry run issues no store statement   *)
(* and makes no closure: until the live run resolves its first word, words *)
(* and translations are empty and no id has been given.                    *)
C13_DryMatchesLive ==
    /\ (pc[1] = "done" /\ pc[2] = "done" /\ ~faulted[2])
           => /\ stats[1].english_entries = stats[2].english_entries
              /\ stats[1].translation_pairs_batched
                     = stats[2].translation_pairs_batched
    /\ links[1].n = 0 /\ pend[1] = {} /\ last[1].queries = 0 /\ ~faulted[1]
    /\ stats[2].english_entries = 0
           => (words = {} /\ pend[2] = {} /\ translations = EmptyBag /\ next_id = 1)

(* Both runs have ended, the live run without fault, after one flush at    *)
(* the capacity and a final flush                                          *)
C13_Witness ==
    /\ pc[1] = "done" /\ pc[2] = "done"
    /\ ~faulted[2]
    /\ lines_left[2] = 0
    /\ stats[1].english_entries = 2
    /\ stats[2].translation_pairs_batched > TRANSLATION_BATCH_SIZE
    /\ words # {}

(* The setup of run p fails: the error summary file cannot be opened, the  *)
(* store is unreachable in a live run, or the input file is absent         *)
C14_SetupFails(p) == ~env.log \/ (~dry_run[p] /\ ~env.store) \/ ~env.file

(* C14: a run that has ended has a non-zero exit status if its setup       *)
(* failed, and exit status 0 otherwise.                                    *)
C14_ExitStatus ==
    \A p \in Procs :
        pc[p] \in {"exit1", "nofile", "done"}
            => (ExitStatus(p) # 0 <=> C14_SetupFails(p))

(* C15: a run that has started processing reaches its summary only with    *)
(* every line of the input read and nothing left in the batch (the final   *)
(* flush was attempted), whatever faults its records and flushes met.      *)
C15_NeverStopsEarly ==
    \A p \in Procs :
        pc[p] = "done" => (lines_left[p] = 0 /\ translation_batch[p] = <<>>)

(* C16: the batch never holds more than TRANSLATION_BATCH_SIZE pairs. *)
C16_BatchBounded ==
    \A p \in Procs : Len(translation_batch[p]) <= TRANSLATION_BATCH_SIZE

(* C17: a flush of a live run either commits, and then adds the length of  *)
(* the batch to translation_pairs_batched, stores every pair of the batch  *)
(* whose words exist and commits the rows of words written since the last  *)
(* commit; or it rolls back, and then leaves the counter and the table     *)
(* translations as they were.                                              *)
C17_FlushTransaction ==
    [][\A p \in Procs :
          (pc[p] \in {"flush", "final"} /\ pc'[p] \notin {"flush", "final"}
           /\ ~dry_run[p])
              => LET batch == translation_batch[p]
                     n == stats[p].translation_pairs_batched
                 IN \/ /\ flushed'[p] = "committed"
                       /\ stats'[p].translation_pairs_batched = n + Len(batch)
                       /\ \A i \in 1..Len(batch) :
                              (batch[i][1] \in WordIds(p) /\ batch[i][2] \in WordIds(p))
                                  => BagIn(batch[i], translations')
                       /\ words' = words \cup pend[p]
                    \/ /\ flushed'[p] = "rolledback"
                       /\ stats'[p] = stats[p]
                       /\ translations' = translations
                       /\ words' = words]_vars

(* A first batch was committed, with a pair twice, and a second one was    *)
(* rolled back                                                             *)
C17_Witness ==
    /\ flushed[1] = "rolledback"
    /\ stats[1].translation_pairs_batched = TRANSLATION_BATCH_SIZE
    /\ BagCardinality(translations) = 1
    /\ stats[1].processed_lines = 2
    /\ translation_batch[1] = <<>>

(* C18: a create_direct_links that meets a store fault leaves translations *)
(* as it was: no derived pair is stored and every pair committed by the    *)
(* flushes stays.                                                          *)
C18_ClosureAllOrNothing ==
    [][\A p \in Procs :
          (pc[p] = "links" /\ pc'[p] = "done" /\ links'[p].outcome = "rolledback")
              => translations' = translations]_vars

(* The closure has failed where it had a pair to derive: the DE->EN and    *)
(* EN->FA pairs are stored, the DE->FA pair is not                          *)
C18_Witness ==
    /\ pc[1] = "done"
    /\ links[1].outcome = "rolledback"
    /\ DirectLinks(translations, words) # {}
    /\ \A e \in DirectLinks(translations, words) : ~BagIn(e, translations)

(* The malformed-input events of one line: a line that is not JSON, an     *)
(* English entry without headword, and in an English entry every German or *)
(* Persian translation reference whose "word" is neither a string, a list  *)
(* nor absent                                                              *)
C19_Events(line) ==
    IF line.kind = "notjson" THEN 1
    ELSE IF line.kind # "object" \/ line.lang_code # "en" THEN 0
    ELSE IF line.word = <<>> THEN 1
    ELSE Cardinality({i \in 1..Len(line.translations) :
                         /\ line.translations[i].code \in {"de", "fa"}
                         /\ line.translations[i].word.t = "other"})

RECURSIVE C19_Sum(_)
C19_Sum(lines) ==
    IF lines = <<>> THEN 0 ELSE C19_Events(Head(lines)) + C19_Sum(Tail(lines))

(* C19: a run that has ended has counted an error for every malformed-     *)
(* input event of the lines it read.                                       *)
C19_MalformedCounted ==
    \A p \in Procs : pc[p] = "done" => stats[p].errors >= C19_Sum(tape)

(* Run p leaves get_word_id in this step, with None *)
C20_ReturnsNone(p) ==
    /\ pc[p] \in {"gw", "gw_insert", "gw_reselect"}
    /\ (call'[p] # call[p] \/ todo'[p] # todo[p])
    /\ last'[p].id = None

(* C20: when get_word_id returns None the cache and the batch stay as they *)
(* are, and the run goes on: with the next translation word of the record  *)
(* or the end of the record, or, if the word was the headword, with the    *)
(* next line after counting an error.                                      *)
C20_FailedResolve ==
    [][\A p \in Procs :
          C20_ReturnsNone(p)
              => /\ word_cache'[p] = word_cache[p]
                 /\ translation_batch'[p] = translation_batch[p]
                 /\ pc'[p] \in {"gw", "read", "flush"}
                 /\ call[p].stage \in {"en", "enx"}
                        => (pc'[p] = "read"
                            /\ stats'[p] = [stats[p] EXCEPT !.errors = @ + 1])
                 /\ call[p].stage = "tr"
                        => (stats'[p] = stats[p] /\ en_id'[p] \in {en_id[p], None})]_vars

(* Without any store fault, the re-select after error 1062 has found no    *)
(* row for a translation word, and the record went on                      *)
C20_Witness ==
    /\ last[1].id = None
    /\ last[1].queries = 3
    /\ ~faulted[1]
    /\ pc[1] \in {"gw", "read", "flush"}
    /\ stats[1].errors = 0

C22_CacheMatchesStore ==
    \A p \in Procs : \A key \in DOMAIN word_cache[p] :
        (~dry_run[p] /\ pc[p] # "done") =>
            \E r \in MatchRows(words \cup pend[p], key) :
                r.id = word_cache[p][key]

(* C23: in a dry run two distinct (lower-cased text, language) pairs never *)
(* share an id, neither in the cache nor among the ids that get_word_id    *)
(* returned.                                                               *)
C23_FakeIdsInjective ==
    \A p \in Procs :
        dry_run[p] =>
            /\ \A k1, k2 \in DOMAIN word_cache[p] :
                   word_cache[p][k1] = word_cache[p][k2] => k1 = k2
            /\ \A r1, r2 \in resolved[p] :
                   r1.id = r2.id => Key(r1.word, r1.lang) = Key(r2.word, r2.lang)

(* A dry run has given ids to three pairs, and has resolved one of them    *)
(* again from the cache                                                    *)
C23_Witness ==
    /\ dry_run[1]
    /\ Cardinality(DOMAIN word_cache[1]) >= 3
    /\ last[1].prev # {}
    /\ last[1].id # None

====
